---- MODULE Spec2Model ----
(***************************************************************************)
(* MediaPlaylistHandler (src/src/player/media_playlist_handler.rs): the    *)
(* sans-I/O core of a live HLS session, together with the host that pulls  *)
(* its actions and reports their completions.                              *)
(*                                                                         *)
(* A Duration is a record [s, ns] (whole seconds, nanoseconds below one    *)
(* second), as std::time::Duration keeps it, so that the arithmetic of the *)
(* refresh interval is exact to the nanosecond.                            *)
(* A Url is a record [file, n]: the playlist, or the file of the segment   *)
(* with absolute sequence number n (the server names a segment's file      *)
(* after its sequence number).                                             *)
(***************************************************************************)
EXTENDS Integers, Sequences, FiniteSets, TLC

\* ---------------------------------------------------------------- bounds
\* Sequence numbers the server ever advertises are 0..MaxSeq.
MaxSeq == 3
\* A manifest lists at most MaxLen segments.
MaxLen == 2
\* The ActionFactory hands out the ids 0..MaxActions-1.
MaxActions == 7

\* ------------------------------------------------------------- Duration
Dur(s, ns) == [s |-> s, ns |-> ns]

\* Duration::from_secs
from_secs(s) == Dur(s, 0)

\* Duration::from_millis
from_millis(ms) == Dur(ms \div 1000, (ms % 1000) * 1000000)

\* a < b on Duration (derived Ord: seconds, then nanoseconds)
DurLt(a, b) == a.s < b.s \/ (a.s = b.s /\ a.ns < b.ns)

\* cmp::min(a, b): a unless b is smaller
DurMin(a, b) == IF DurLt(b, a) THEN b ELSE a

\* Duration += Duration
DurAdd(a, b) ==
    LET n == a.ns + b.ns
    IN  IF n >= 1000000000 THEN Dur(a.s + b.s + 1, n - 1000000000)
        ELSE Dur(a.s + b.s, n)

\* Duration -= Duration, for b <= a
DurSub(a, b) ==
    IF a.ns >= b.ns THEN Dur(a.s - b.s, a.ns - b.ns)
    ELSE Dur(a.s - b.s - 1, a.ns + 1000000000 - b.ns)

\* Duration / u32: the quotient rounded down to a whole nanosecond.  The
\* remainder of the seconds is carried into the nanoseconds in two steps of
\* base 10^3 and 10^6 so that no intermediate exceeds 32 bits.
DurDiv(a, n) ==
    LET carry == a.s % n
        hi    == carry * 1000 + (a.ns \div 1000000)
        lo    == (hi % n) * 1000000 + (a.ns % 1000000)
    IN  Dur(a.s \div n, (hi \div n) * 1000000 + (lo \div n))

\* ------------------------------------------------------------------ Url
Url(file, n) == [file |-> file, n |-> n]

\* media_playlist_url, immutable after construction
media_playlist_url == Url("playlist", 0)

\* A segment's URI reference in a manifest: the name of its file, or a
\* reference that does not resolve against the base.
GoodUri(seq) == [resolves |-> TRUE, n |-> seq]
BadUri(seq) == [resolves |-> FALSE, n |-> seq]

\* parse_segment_url: Ok(url) or Err
parse_segment_url(uri) ==
    [ok |-> uri.resolves, url |-> Url("segment", uri.n)]

\* --------------------------------------------------------------- Action
\* ActionFactory::fetch_data and ActionFactory::set_timeout, with the id the
\* factory assigns at creation.
fetch_data(id, url) ==
    [id |-> id, kind |-> "FetchData", url |-> url, duration |-> from_secs(0)]

set_timeout(id, d) ==
    [id |-> id, kind |-> "SetTimer", url |-> Url("none", 0), duration |-> d]

IsSegmentFetch(a) == a.kind = "FetchData" /\ a.url.file = "segment"

\* ------------------------------------------------------------ host data
\* What the server may answer.  Under Spec, which explores every
\* interleaving of the host's pulls and completions, every manifest has the
\* same target duration and segment duration and every fetch the same round
\* trip; under SpecInterval, which explores the refresh interval, they are
\* drawn from the larger sets.
Targets == {from_secs(6)}
SegDurations == {from_secs(5)}
FetchMs == {400}
IntervalTargets == {from_secs(6), from_secs(7)}
IntervalSegDurations == {from_secs(5), from_secs(7)}
IntervalFetchMs == {400, 401, 13000}

Range(q) == {q[i] : i \in 1..Len(q)}

NoSegments == <<>>

\* The bytes of a completion, by what the handler's collaborators make of
\* them: kind "binary" is not UTF-8, "text" is UTF-8 that is no playlist,
\* "m3u8" parses to a MediaPlaylist (media_sequence, target, segments), and
\* "ts" is the transport stream of segment seq, with the outcome of the
\* remuxer and of the two serializations.
Data(kind, first, target, segments, seq, outcome) ==
    [kind |-> kind, media_sequence |-> first, target |-> target,
     segments |-> segments, seq |-> seq, outcome |-> outcome]

NoData == Data("none", 0, from_secs(0), NoSegments, 0, "none")

\* The lists of n segments of a manifest whose first sequence number is
\* first: any durations, and at most one URI that does not resolve.
SegmentLists(first, n, durations) ==
    {[i \in 1..n |-> [duration |-> d[i],
                      uri |-> IF i = bad THEN BadUri(first + i - 1)
                              ELSE GoodUri(first + i - 1)]] :
        d \in [1..n -> durations], bad \in 0..n}

\* The number of segments a manifest starting at first may list.
LenUpTo(first) ==
    IF MaxSeq + 1 - first < MaxLen THEN MaxSeq + 1 - first ELSE MaxLen

Playlists(targets, durations) ==
    UNION {UNION {{Data("m3u8", first, t, sl, 0, "none") :
                      t \in targets, sl \in SegmentLists(first, n, durations)} :
                  n \in 0..LenUpTo(first)} :
           first \in 0..MaxSeq}

ManifestResponses(targets, durations) ==
    Playlists(targets, durations) \cup
        {Data("binary", 0, from_secs(0), NoSegments, 0, "none"),
         Data("text", 0, from_secs(0), NoSegments, 0, "none")}

\* The playlists and the manifest bytes of each specification.
FirstPlaylists == Playlists(Targets, SegDurations)

Manifests == ManifestResponses(Targets, SegDurations)

IntervalPlaylists == Playlists(IntervalTargets, IntervalSegDurations)

IntervalManifests == ManifestResponses(IntervalTargets, IntervalSegDurations)

SegmentOutcomes == {"ok", "remux_err", "init_err", "media_err"}

SegmentResponses(seq) ==
    {Data("ts", 0, from_secs(0), NoSegments, seq, o) : o \in SegmentOutcomes}

\* The host answers a fetch of the playlist with some manifest bytes and a
\* fetch of a segment file with that segment's bytes.
Responses(url) ==
    IF url.file = "playlist" THEN Manifests
    ELSE SegmentResponses(url.n)

\* ---------------------------------------------------------------- state
VARIABLES
    action_factory,             \* the next id the ActionFactory assigns
    action_queue,               \* pending_actions
    segment_queue,              \* <<sequence number, fetch started, url>>
    buffered_segments,          \* output_queue
    last_media_sequence,        \* high_watermark
    is_initialized,
    fetch_playlist_action_id,   \* manifest_action_id
    segments_total,
    segment_durations_total,
    in_flight,                  \* host: actions pulled and not yet answered
    fetch_count,                \* history: FetchData commands per sequence number
    enqueued,                   \* history: sequence numbers ever appended to segment_queue
    pushed,                     \* history: every payload pushed to buffered_segments
    dropped,                    \* history: <<sequence number, fetch started>> of stale entries dropped
    last,                       \* history: the operation of the last step
    polled                      \* history: the last manifest poll that returned Ok, if it found nothing new

core == <<action_factory, action_queue, segment_queue, buffered_segments,
          last_media_sequence, is_initialized, fetch_playlist_action_id,
          segments_total, segment_durations_total>>

history == <<fetch_count, enqueued, pushed, dropped, last, polled>>

vars == <<core, in_flight, history>>

\* What a manifest poll that returned Ok and found no new segment read and
\* computed: the target duration, the round trip, the running totals it
\* left, and the duration of the SetTimer it enqueued; repeats counts the
\* polls directly before it that found nothing new either and had the same
\* target, round trip and totals.  A poll that found a new segment, like no
\* poll at all, is NoPoll.
Poll(is_updated, target, ms, total_n, total_d, interval, repeats) ==
    [is_updated |-> is_updated, target |-> target, ms |-> ms,
     segments_total |-> total_n, segment_durations_total |-> total_d,
     interval |-> interval, repeats |-> repeats]

NoPoll == Poll(TRUE, from_secs(0), 0, 0, from_secs(0), from_secs(0), 0)

Op(op, ok, data, ms) == [op |-> op, ok |-> ok, data |-> data, ms |-> ms]

\* MediaPlaylistHandler::new
Init ==
    /\ action_factory = 1
    /\ action_queue = <<fetch_data(0, media_playlist_url)>>
    /\ segment_queue = <<>>
    /\ buffered_segments = <<>>
    /\ last_media_sequence = 0
    /\ is_initialized = FALSE
    /\ fetch_playlist_action_id = 0
    /\ segments_total = 0
    /\ segment_durations_total = from_secs(0)
    /\ in_flight = {}
    /\ fetch_count = [s \in 0..MaxSeq |-> 0]
    /\ enqueued = {}
    /\ pushed = <<>>
    /\ dropped = {}
    /\ last = Op("new", TRUE, NoData, 0)
    /\ polled = NoPoll

\* The handler's fields as one record, so that each method is a function
\* from the handler before the call to the handler after it.
Self ==
    [action_factory |-> action_factory,
     action_queue |-> action_queue,
     segment_queue |-> segment_queue,
     buffered_segments |-> buffered_segments,
     last_media_sequence |-> last_media_sequence,
     is_initialized |-> is_initialized,
     fetch_playlist_action_id |-> fetch_playlist_action_id,
     segments_total |-> segments_total,
     segment_durations_total |-> segment_durations_total]

Install(self) ==
    /\ action_factory' = self.action_factory
    /\ action_queue' = self.action_queue
    /\ segment_queue' = self.segment_queue
    /\ buffered_segments' = self.buffered_segments
    /\ last_media_sequence' = self.last_media_sequence
    /\ is_initialized' = self.is_initialized
    /\ fetch_playlist_action_id' = self.fetch_playlist_action_id
    /\ segments_total' = self.segments_total
    /\ segment_durations_total' = self.segment_durations_total

Ok(self) == [ok |-> TRUE, self |-> self]
Err(self) == [ok |-> FALSE, self |-> self]

\* ------------------------------------------------------ handle_playlist
\* drop_stale without the loop: no stale entry is popped.
drop_stale_none(q, media_sequence) == q

\* while front.0 < media_sequence { pop_front }
RECURSIVE drop_stale(_, _)
drop_stale(q, media_sequence) ==
    IF q # <<>> /\ Head(q)[1] < media_sequence
    THEN drop_stale(Tail(q), media_sequence)
    ELSE q

\* is_known with the comparison off by one: the segment at the watermark
\* counts as new.
is_known_strict(seq, last_seq) == seq < last_seq

\* if seq <= self.last_media_sequence { continue }
is_known(seq, last_seq) == seq <= last_seq

\* count_segment without the assignment to last_media_sequence.
count_segment_no_watermark(self, seq, duration) ==
    [self EXCEPT
       !.segments_total = @ + 1,
       !.segment_durations_total = DurAdd(@, duration)]

\* self.last_media_sequence = seq; self.segments_total += 1;
\* self.segment_durations_total += segment.inf_tag().duration();
count_segment(self, seq, duration) ==
    [self EXCEPT
       !.last_media_sequence = seq,
       !.segments_total = @ + 1,
       !.segment_durations_total = DurAdd(@, duration)]

\* reconcile with polling_interval lowered to the duration of every listed
\* segment, the known ones included.
RECURSIVE reconcile_min_over_listed(_, _, _)
reconcile_min_over_listed(loop, playlist, i) ==
    IF i > Len(playlist.segments) THEN loop
    ELSE
      LET segment == playlist.segments[i]
          seq == playlist.media_sequence + (i - 1)
          self == loop.self
          lowered == [loop EXCEPT !.polling_interval = DurMin(@, segment.duration)]
      IN
      IF is_known(seq, self.last_media_sequence)
      THEN reconcile_min_over_listed(lowered, playlist, i + 1)
      ELSE
        LET counted == count_segment(self, seq, segment.duration)
            segment_url == parse_segment_url(segment.uri)
            ongoing == counted.segment_queue = <<>>
            fetched ==
              IF ongoing
              THEN [counted EXCEPT
                      !.action_queue =
                          Append(@, fetch_data(counted.action_factory, segment_url.url)),
                      !.action_factory = @ + 1]
              ELSE counted
            queued ==
              [fetched EXCEPT
                 !.segment_queue = Append(@, <<seq, ongoing, segment_url.url>>)]
        IN
        IF ~segment_url.ok
        THEN [loop EXCEPT !.self = counted, !.is_updated = TRUE, !.err = TRUE]
        ELSE reconcile_min_over_listed(
               [lowered EXCEPT !.self = queued, !.is_updated = TRUE],
               playlist, i + 1)

\* One pass of the for loop over playlist.segments(), from the segment at
\* index i (1-based) on.  loop = [self, is_updated, polling_interval, err];
\* a URL that does not resolve returns from handle_playlist at once, with
\* the assignments made so far in place.
RECURSIVE reconcile(_, _, _)
reconcile(loop, playlist, i) ==
    IF i > Len(playlist.segments) THEN loop
    ELSE
      LET segment == playlist.segments[i]
          seq == playlist.media_sequence + (i - 1)
          self == loop.self
      IN
      IF is_known(seq, self.last_media_sequence)
      THEN reconcile(loop, playlist, i + 1)
      ELSE
        LET counted == count_segment(self, seq, segment.duration)
            segment_url == parse_segment_url(segment.uri)
            ongoing == counted.segment_queue = <<>>
            fetched ==
              IF ongoing
              THEN [counted EXCEPT
                      !.action_queue =
                          Append(@, fetch_data(counted.action_factory, segment_url.url)),
                      !.action_factory = @ + 1]
              ELSE counted
            queued ==
              [fetched EXCEPT
                 !.segment_queue = Append(@, <<seq, ongoing, segment_url.url>>)]
        IN
        IF ~segment_url.ok
        THEN [loop EXCEPT !.self = counted, !.is_updated = TRUE, !.err = TRUE]
        ELSE reconcile(
               [loop EXCEPT
                  !.self = queued,
                  !.is_updated = TRUE,
                  !.polling_interval = DurMin(@, segment.duration)],
               playlist, i + 1)

\* estimate with the whole round trip subtracted instead of half of it.
estimate_full_round_trip(polling_interval, total_n, total_d, fetch_duration_ms, is_updated) ==
    LET clamped ==
          IF total_n > 0
          THEN DurMin(polling_interval, DurDiv(total_d, total_n))
          ELSE polling_interval
        transfer_delay == from_millis(fetch_duration_ms)
        delayed ==
          IF DurLt(transfer_delay, clamped)
          THEN DurSub(clamped, transfer_delay)
          ELSE from_secs(0)
    IN  IF ~is_updated THEN DurDiv(delayed, 2) ELSE delayed

\* estimate with the halving applied before the latency is subtracted.
estimate_halved_first(polling_interval, total_n, total_d, fetch_duration_ms, is_updated) ==
    LET clamped ==
          IF total_n > 0
          THEN DurMin(polling_interval, DurDiv(total_d, total_n))
          ELSE polling_interval
        halved == IF ~is_updated THEN DurDiv(clamped, 2) ELSE clamped
        transfer_delay == from_millis(fetch_duration_ms \div 2)
    IN  IF DurLt(transfer_delay, halved)
        THEN DurSub(halved, transfer_delay)
        ELSE from_secs(0)

\* The refresh interval: polling_interval after the loop, clamped to the
\* running average, less half the round trip, floored at zero, and halved
\* when the poll found nothing new.
estimate(polling_interval, total_n, total_d, fetch_duration_ms, is_updated) ==
    LET clamped ==
          IF total_n > 0
          THEN DurMin(polling_interval, DurDiv(total_d, total_n))
          ELSE polling_interval
        transfer_delay == from_millis(fetch_duration_ms \div 2)
        delayed ==
          IF DurLt(transfer_delay, clamped)
          THEN DurSub(clamped, transfer_delay)
          ELSE from_secs(0)
    IN  IF ~is_updated THEN DurDiv(delayed, 2) ELSE delayed

handle_playlist(self, data, fetch_duration_ms) ==
    IF data.kind # "m3u8" THEN Err(self)
    ELSE
      LET swept ==
            [self EXCEPT !.segment_queue = drop_stale(@, data.media_sequence)]
          loop ==
            reconcile([self |-> swept, is_updated |-> FALSE,
                       polling_interval |-> data.target, err |-> FALSE],
                      data, 1)
          after == loop.self
          polling_interval ==
            estimate(loop.polling_interval, after.segments_total,
                     after.segment_durations_total, fetch_duration_ms,
                     loop.is_updated)
      IN
      IF loop.err THEN Err(after)
      ELSE Ok([after EXCEPT
                 !.segment_durations_total =
                     IF after.segments_total > 0 THEN @ ELSE from_secs(0),
                 !.action_queue =
                     Append(@, set_timeout(after.action_factory, polling_interval)),
                 !.action_factory = @ + 1])

\* ------------------------------------------------------- handle_segment
\* consume_front without the test of the flag: the front entry is popped
\* and never pushed back.
consume_front_always(q) ==
    IF q # <<>> THEN Tail(q) ELSE q

\* if let Some(x) = pop_front() { if !x.1 { push_front(x) } }
consume_front(q) ==
    IF q # <<>> /\ Head(q)[2] THEN Tail(q) ELSE q

\* if let Some((_, _, url)) = pop_front() { push_back(fetch_data(url)) }
dispatch_next(self) ==
    IF self.segment_queue # <<>>
    THEN [self EXCEPT
            !.action_queue =
                Append(@, fetch_data(self.action_factory, Head(self.segment_queue)[3])),
            !.action_factory = @ + 1,
            !.segment_queue = Tail(@)]
    ELSE self

Payload(kind, seq) == [kind |-> kind, seq |-> seq]

\* assemble without self.is_initialized = true.
assemble_never_initialized(self, data) ==
    IF data.kind # "ts" \/ data.outcome = "remux_err" THEN Err(self)
    ELSE IF ~self.is_initialized /\ data.outcome = "init_err" THEN Err(self)
    ELSE
      LET initialized ==
            IF ~self.is_initialized
            THEN [self EXCEPT
                    !.buffered_segments = Append(@, [kind |-> "init", seq |-> data.seq])]
            ELSE self
      IN  IF data.outcome = "media_err" THEN Err(initialized)
          ELSE Ok([initialized EXCEPT
                     !.buffered_segments = Append(@, [kind |-> "media", seq |-> data.seq])])

\* assemble with the media segment pushed ahead of the initialization
\* segment.
assemble_media_first(self, data) ==
    IF data.kind # "ts" \/ data.outcome = "remux_err" THEN Err(self)
    ELSE IF ~self.is_initialized /\ data.outcome = "init_err" THEN Err(self)
    ELSE IF data.outcome = "media_err" THEN Err(self)
    ELSE
      LET media ==
            [self EXCEPT
               !.buffered_segments = Append(@, [kind |-> "media", seq |-> data.seq])]
      IN  IF ~self.is_initialized
          THEN Ok([media EXCEPT
                     !.buffered_segments = Append(@, [kind |-> "init", seq |-> data.seq]),
                     !.is_initialized = TRUE])
          ELSE Ok(media)

\* to_fmp4 and the two write_to calls: the initialization segment once,
\* then the media segment, each `?' returning early.
assemble(self, data) ==
    IF data.kind # "ts" \/ data.outcome = "remux_err" THEN Err(self)
    ELSE IF ~self.is_initialized /\ data.outcome = "init_err" THEN Err(self)
    ELSE
      LET initialized ==
            IF ~self.is_initialized
            THEN [self EXCEPT
                    !.buffered_segments = Append(@, Payload("init", data.seq)),
                    !.is_initialized = TRUE]
            ELSE self
      IN  IF data.outcome = "media_err" THEN Err(initialized)
          ELSE Ok([initialized EXCEPT
                     !.buffered_segments = Append(@, Payload("media", data.seq))])

\* handle_segment that issues the next FetchData only when it consumed a
\* dispatched front entry.
handle_segment_hand_off_only(self, data) ==
    IF self.segment_queue # <<>> /\ Head(self.segment_queue)[2]
    THEN assemble(dispatch_next([self EXCEPT !.segment_queue = Tail(@)]), data)
    ELSE assemble(self, data)

\* handle_segment with the remuxer called before the queue is touched: a
\* remux error returns with the pipeline step not taken.
handle_segment_remux_first(self, data) ==
    IF data.kind # "ts" \/ data.outcome = "remux_err" THEN Err(self)
    ELSE assemble(dispatch_next([self EXCEPT !.segment_queue = consume_front(@)]), data)

handle_segment(self, data) ==
    assemble(dispatch_next([self EXCEPT !.segment_queue = consume_front(@)]), data)

\* ---------------------------------------------------------- handle_data
\* handle_data that takes every completion for the manifest's.
handle_data_playlist_only(self, action_id, data, fetch_duration_ms) ==
    IF data.kind \in {"binary", "ts"} THEN Err(self)
    ELSE handle_playlist(self, data, fetch_duration_ms)

handle_data(self, action_id, data, fetch_duration_ms) ==
    IF action_id = self.fetch_playlist_action_id
    THEN IF data.kind \in {"binary", "ts"} THEN Err(self)
         ELSE handle_playlist(self, data, fetch_duration_ms)
    ELSE handle_segment(self, data)

\* handle_timeout without self.action_queue.push_back(action).
handle_timeout_no_fetch(self, action_id) ==
    [self EXCEPT
       !.fetch_playlist_action_id = self.action_factory,
       !.action_factory = @ + 1]

\* handle_timeout without self.fetch_playlist_action_id = action_id.
handle_timeout_keeps_id(self, action_id) ==
    [self EXCEPT
       !.action_queue = Append(@, fetch_data(self.action_factory, media_playlist_url)),
       !.action_factory = @ + 1]

\* ------------------------------------------------------- handle_timeout
handle_timeout(self, action_id) ==
    [self EXCEPT
       !.action_queue = Append(@, fetch_data(self.action_factory, media_playlist_url)),
       !.fetch_playlist_action_id = self.action_factory,
       !.action_factory = @ + 1]

\* -------------------------------------------------------------- history
\* The poll that took the handler to after, given the poll before it.
NextPoll(before, after, data, ms) ==
    LET is_updated == after.last_media_sequence # last_media_sequence
        again ==
          /\ ~is_updated
          /\ ~before.is_updated
          /\ before.target = data.target
          /\ before.ms = ms
          /\ before.segments_total = after.segments_total
          /\ before.segment_durations_total = after.segment_durations_total
    IN  IF is_updated THEN NoPoll
        ELSE Poll(FALSE, data.target, ms, after.segments_total,
                  after.segment_durations_total,
                  after.action_queue[Len(after.action_queue)].duration,
                  IF again THEN before.repeats + 1 ELSE 0)

Suffix(old, new) == SubSeq(new, Len(old) + 1, Len(new))

\* The history after a method took the handler from Self to after: the
\* commands and payloads it pushed, and, for a manifest that parsed (its
\* first sequence number is first), the entries it dropped and appended.
Observe(after, parsed, first, op) ==
    LET issued == Suffix(action_queue, after.action_queue)
        swept == IF parsed THEN drop_stale(segment_queue, first) ELSE segment_queue
        stale == SubSeq(segment_queue, 1, Len(segment_queue) - Len(swept))
        appended == IF parsed THEN Suffix(swept, after.segment_queue) ELSE <<>>
    IN  /\ fetch_count' =
             [s \in 0..MaxSeq |->
                fetch_count[s] +
                Cardinality({i \in 1..Len(issued) :
                               IsSegmentFetch(issued[i]) /\ issued[i].url.n = s})]
        /\ enqueued' = enqueued \cup {appended[i][1] : i \in 1..Len(appended)}
        /\ dropped' = dropped \cup {<<stale[i][1], stale[i][2]>> : i \in 1..Len(stale)}
        /\ pushed' = pushed \o Suffix(buffered_segments, after.buffered_segments)
        /\ last' = op
        /\ polled' = IF op.op = "handle_playlist" /\ op.ok
                     THEN NextPoll(polled, after, op.data, op.ms)
                     ELSE polled

\* -------------------------------------------------------------- actions
\* The host pulls the next pending action and starts executing it.
next_action ==
    /\ action_queue # <<>>
    /\ action_queue' = Tail(action_queue)
    /\ in_flight' = in_flight \cup {Head(action_queue)}
    /\ last' = Op("next_action", TRUE, NoData, 0)
    /\ UNCHANGED <<action_factory, segment_queue, buffered_segments,
                   last_media_sequence, is_initialized, fetch_playlist_action_id,
                   segments_total, segment_durations_total,
                   fetch_count, enqueued, pushed, dropped, polled>>

\* The downstream consumer pulls the next payload.
next_segment ==
    /\ buffered_segments # <<>>
    /\ buffered_segments' = Tail(buffered_segments)
    /\ last' = Op("next_segment", TRUE, NoData, 0)
    /\ UNCHANGED <<action_factory, action_queue, segment_queue,
                   last_media_sequence, is_initialized, fetch_playlist_action_id,
                   segments_total, segment_durations_total, in_flight,
                   fetch_count, enqueued, pushed, dropped, polled>>

\* TimerFired(id): the host reports that a timer it was given has fired.
TimerFired(a) ==
    /\ a \in in_flight
    /\ a.kind = "SetTimer"
    /\ action_factory < MaxActions
    /\ Install(handle_timeout(Self, a.id))
    /\ in_flight' = in_flight \ {a}
    /\ Observe(handle_timeout(Self, a.id), FALSE, 0,
               Op("handle_timeout", TRUE, NoData, 0))

\* DataReceived(id, bytes, elapsed) while the ActionFactory stays within
\* limit ids: the host reports the bytes of a fetch it was given.
DataReceivedWithin(a, data, fetch_duration_ms, limit) ==
    /\ a \in in_flight
    /\ a.kind = "FetchData"
    /\ LET manifest == a.id = fetch_playlist_action_id
           r == handle_data(Self, a.id, data, fetch_duration_ms)
       IN  /\ r.self.action_factory <= limit
           /\ Install(r.self)
           /\ in_flight' = in_flight \ {a}
           /\ Observe(r.self, manifest /\ data.kind = "m3u8", data.media_sequence,
                      IF manifest
                      THEN Op("handle_playlist", r.ok, data, fetch_duration_ms)
                      ELSE Op("handle_segment", r.ok, data, 0))

DataReceived(a, data, fetch_duration_ms) ==
    DataReceivedWithin(a, data, fetch_duration_ms, MaxActions)

\* MediaPlaylistHandler::with_m3u8: the other constructor.  The manifest
\* fetch that new() queued is pulled and thrown away, and the given playlist
\* is handled with a round trip of 0 ms; an error builds no handler.
with_m3u8(data) ==
    /\ last.op = "new"
    /\ LET pulled == [Self EXCEPT !.action_queue = Tail(@)]
           r == handle_playlist(pulled, data, 0)
       IN  /\ r.ok
           /\ Install(r.self)
           /\ in_flight' = in_flight
           /\ LET issued == Suffix(pulled.action_queue, r.self.action_queue)
                  appended == r.self.segment_queue
              IN  /\ fetch_count' =
                       [s \in 0..MaxSeq |->
                          fetch_count[s] +
                          Cardinality({i \in 1..Len(issued) :
                                         IsSegmentFetch(issued[i]) /\ issued[i].url.n = s})]
                  /\ enqueued' = {appended[i][1] : i \in 1..Len(appended)}
                  /\ UNCHANGED <<pushed, dropped>>
                  /\ last' = Op("with_m3u8", TRUE, data, 0)
                  /\ polled' = NextPoll(polled, r.self, data, 0)

Next ==
    \/ next_action
    \/ next_segment
    \/ \E a \in in_flight : TimerFired(a)
    \/ \E a \in in_flight :
          \E data \in Responses(a.url), ms \in FetchMs : DataReceived(a, data, ms)
    \/ \E data \in FirstPlaylists : with_m3u8(data)

Spec == Init /\ [][Next]_vars

\* The ids a behaviour can use once TimerFired has stopped at MaxActions:
\* each manifest fetch still in flight takes at most two when it completes
\* (one FetchData, one SetTimer), and each sequence number at most one.
LiveActions == 3 * MaxActions + MaxSeq + 1

\* A fetch the host was given leaves in_flight: what a step of CompleteFetch
\* does to in_flight, and what no other step of NextLive does.
FetchReported ==
    \E a \in in_flight : a.kind = "FetchData" /\ in_flight' = in_flight \ {a}

\* The host of the contract: it pulls every pending action and reports the
\* completion of every fetch it was given (of the timers no fairness is
\* asked).  The pulls of payloads are left out: they change
\* buffered_segments alone, which no handler reads.  Only the number of
\* timers the host fires is bounded; no completion of a fetch is ever held
\* back (LiveHostNeverHeldBack), so that CompleteFetch is enabled exactly
\* when FetchReported is, and the fairness of SpecLive is stated on the
\* latter.
CompleteFetch ==
    \E a \in in_flight :
       \E data \in Responses(a.url), ms \in FetchMs :
          DataReceivedWithin(a, data, ms, LiveActions)

NextLive ==
    \/ next_action
    \/ \E a \in in_flight : TimerFired(a)
    \/ CompleteFetch
    \/ \E data \in FirstPlaylists : with_m3u8(data)

SpecLive ==
    /\ Init
    /\ [][NextLive]_vars
    /\ WF_vars(next_action)
    /\ WF_in_flight(FetchReported)

\* The refresh interval depends on the manifests polled and on the round
\* trips measured, and on nothing a segment completion or a pull of a
\* payload changes (last_media_sequence and the two running totals are
\* written by handle_playlist alone).  NextInterval therefore leaves every
\* segment fetch unanswered, as the host may, and draws the manifests and
\* the round trips from the larger sets.
NextInterval ==
    \/ next_action
    \/ \E a \in in_flight : TimerFired(a)
    \/ \E a \in in_flight :
          /\ a.url = media_playlist_url
          /\ \E data \in IntervalManifests,
                ms \in IntervalFetchMs : DataReceived(a, data, ms)
    \/ \E data \in IntervalPlaylists : with_m3u8(data)

SpecInterval == Init /\ [][NextInterval]_vars

\* =============================================================== claims
\* The segment FetchData commands the core has issued that no DataReceived
\* has answered yet: pending in action_queue or being executed by the host.
SegmentFetches ==
    {a \in Range(action_queue) \cup in_flight : IsSegmentFetch(a)}

\* The sequence numbers a playlist lists.
Listed(data) ==
    {data.media_sequence + i - 1 : i \in 1..Len(data.segments)}

\* C1: in every reachable state at most one segment FetchData command is in
\* flight (issued by the core and not yet answered by a DataReceived).
C1_AtMostOneSegmentFetchInFlight ==
    Cardinality(SegmentFetches) <= 1

\* C2: over the whole session each absolute sequence number is the target
\* of at most one FetchData command, whether the reconciler issued it on
\* discovery or the pipeline on hand-off.
C2_NoSegmentRefetched ==
    \A s \in 0..MaxSeq : fetch_count[s] <= 1

\* C2 witness: a manifest poll has just listed again a segment that was
\* fetched before, next to one it discovered, and a hand-off has happened.
C2_Witness ==
    /\ last.op = "handle_playlist"
    /\ last.ok
    /\ \E s \in Listed(last.data) :
          /\ s \in enqueued
          /\ fetch_count[s] = 1
          /\ \A i \in 1..Len(segment_queue) : segment_queue[i][1] # s
    /\ \E s \in 0..MaxSeq, i \in 1..Len(pushed) : pushed[i].seq = s /\ fetch_count[s] = 1
    /\ Cardinality({s \in 0..MaxSeq : fetch_count[s] = 1}) >= 2

\* C3: after any successfully processed manifest poll, every segment the
\* manifest lists has been appended to segment_queue at some point of the
\* session, whatever the first sequence number of the manifest is.
C3_NoSegmentSkipped ==
    (last.op \in {"handle_playlist", "with_m3u8"} /\ last.ok)
        => Listed(last.data) \subseteq enqueued

QueueStrictlyIncreasing ==
    \A i \in 1..Len(segment_queue) - 1 :
        segment_queue[i][1] < segment_queue[i + 1][1]

QueueBelowWatermark ==
    \A i \in 1..Len(segment_queue) : segment_queue[i][1] <= last_media_sequence

\* C4: last_media_sequence never decreases, segment_queue is strictly
\* increasing by sequence number, and every queued sequence number is at
\* most last_media_sequence.
C4_WatermarkAndQueueOrder ==
    /\ [](QueueStrictlyIncreasing /\ QueueBelowWatermark)
    /\ [][last_media_sequence' >= last_media_sequence]_vars

\* C4 witness: two entries are queued after a poll that dropped a stale
\* entry and raised the watermark.
C4_Witness ==
    /\ Len(segment_queue) >= 2
    /\ dropped # {}
    /\ last.op = "handle_playlist"
    /\ last_media_sequence = segment_queue[Len(segment_queue)][1]

\* C5: of all the payloads ever pushed to buffered_segments, the first is
\* the initialization payload, it is pushed at most once, and every other
\* payload is a media payload; also when the remuxer or a serialization
\* fails.
C5_InitializationFirstAndOnce ==
    \A i \in 1..Len(pushed) :
        pushed[i].kind = (IF i = 1 THEN "init" ELSE "media")

\* C5 witness: the media serialization of the first segment failed after
\* its initialization payload was pushed, and two later segments were
\* assembled.
C5_Witness ==
    /\ Len(pushed) >= 3
    /\ pushed[1].seq # pushed[2].seq
    /\ last.op = "handle_segment"

\* The last step was a manifest poll that parsed its playlist.
PolledPlaylist ==
    last.op = "handle_playlist" /\ last.data.kind = "m3u8"

\* The last step was a manifest poll that returned Ok.
PollSucceeded ==
    last.op \in {"handle_playlist", "with_m3u8"} /\ last.ok

\* C6: when a manifest's first sequence number is greater than the sequence
\* numbers of entries at the front of segment_queue, the poll removes all
\* of those entries, no FetchData command is ever issued for a removed
\* entry, and the removal leaves last_media_sequence unchanged: only a
\* segment newly enqueued by the same poll raises it.
C6_StaleEntriesDroppedUnfetched ==
    /\ [](PolledPlaylist =>
            \A i \in 1..Len(segment_queue) :
                segment_queue[i][1] >= last.data.media_sequence)
    /\ [](\A e \in dropped : fetch_count[e[1]] = 0)
    /\ [][(dropped' # dropped /\ last_media_sequence' # last_media_sequence)
             => enqueued' # enqueued]_vars

\* C7: whenever segment_queue is non-empty, exactly one FetchData command
\* for segment data is pending in action_queue or in flight at the host.
C7_ExactlyOneFetchWhileQueued ==
    segment_queue # <<>> => Cardinality(SegmentFetches) = 1

\* The least of a non-empty set of durations.
MinDuration(S) == CHOOSE d \in S : \A e \in S : ~DurLt(e, d)

\* The durations of the segments of a playlist above the watermark hw.
NewDurations(data, hw) ==
    {data.segments[i].duration :
        i \in {j \in 1..Len(data.segments) : data.media_sequence + j - 1 > hw}}

\* max(0, min(target, new durations, total / count if count > 0)
\*        - floor(elapsed / 2)), halved when nothing is new.
IntervalFormula(target, new, count, total, elapsed) ==
    LET least ==
          MinDuration({target} \cup new \cup
                      (IF count > 0 THEN {DurDiv(total, count)} ELSE {}))
        latency == from_millis(elapsed \div 2)
        floored ==
          IF DurLt(latency, least) THEN DurSub(least, latency) ELSE from_secs(0)
    IN  IF new = {} THEN DurDiv(floored, 2) ELSE floored

\* The command at the back of a queue of actions.
Back(q) == q[Len(q)]

\* C8: the SetTimer command a successful manifest poll enqueues lasts
\* max(0, min(target, least new segment duration, running average)
\* - floor(elapsed / 2)), divided by 2 when no segment was newly enqueued;
\* for target 6 s, new segments of 5 s and 7 s on the first poll of the
\* session and 400 ms elapsed it lasts 4.8 s.
C8_TimerDuration ==
    [][PollSucceeded' =>
          /\ Back(action_queue').kind = "SetTimer"
          /\ Back(action_queue').duration =
                IntervalFormula(last'.data.target,
                                NewDurations(last'.data, last_media_sequence),
                                segments_total', segment_durations_total',
                                last'.ms)
          /\ (/\ segments_total = 0
              /\ last'.data.target = from_secs(6)
              /\ last'.ms = 400
              /\ Len(last'.data.segments) = 2
              /\ last'.data.segments[1].duration = from_secs(5)
              /\ last'.data.segments[2].duration = from_secs(7)
              /\ segments_total' = 2)
             => Back(action_queue').duration = Dur(4, 800000000)]_vars

\* C8 witness: the first poll of the session found segments of 5 s and 7 s
\* under a target of 6 s after a round trip of 400 ms, and its timer is
\* queued.
C8_Witness ==
    /\ last.op = "handle_playlist"
    /\ last.ok
    /\ last.ms = 400
    /\ last.data.target = from_secs(6)
    /\ Len(last.data.segments) = 2
    /\ last.data.segments[1].duration = from_secs(5)
    /\ last.data.segments[2].duration = from_secs(7)
    /\ segments_total = 2
    /\ segment_durations_total = from_secs(12)
    /\ Back(action_queue).duration = Dur(4, 800000000)

\* C9: a manifest poll that discovers no new segment enqueues a SetTimer of
\* half the duration that the same target, the same running totals and the
\* same elapsed time give for a poll that discovers one: the halving comes
\* after the latency subtraction and the zero floor.  Half of a Duration is
\* Duration / 2.
C9_NoUpdateHalves ==
    [][(PollSucceeded' /\ enqueued' = enqueued) =>
          Back(action_queue').duration =
              DurDiv(estimate(last'.data.target, segments_total,
                              segment_durations_total, last'.ms, TRUE), 2)]_vars

\* C9 witness: a poll found nothing new, and the interval it halved is a
\* positive odd number of nanoseconds.
C9_Witness ==
    /\ last.op = "handle_playlist"
    /\ last.ok
    /\ NewDurations(last.data, last_media_sequence) = {}
    /\ segments_total = 3
    /\ estimate(last.data.target, segments_total, segment_durations_total,
                last.ms, TRUE).ns % 2 = 1
    /\ Back(action_queue).kind = "SetTimer"
    /\ Back(action_queue).duration # from_secs(0)

\* C10: a manifest poll that fails (bytes that are not UTF-8, a parse
\* error, a segment URL that does not resolve) is not partially applied:
\* last_media_sequence, segments_total, segment_durations_total,
\* action_queue and the entries appended to segment_queue are as before.
C10_FailedPollNotApplied ==
    [][(last'.op = "handle_playlist" /\ ~last'.ok) =>
          /\ last_media_sequence' = last_media_sequence
          /\ segments_total' = segments_total
          /\ segment_durations_total' = segment_durations_total
          /\ action_queue' = action_queue
          /\ enqueued' = enqueued]_vars
\* The last step handled a segment completion and returned Ok.
SegmentSucceeded ==
    last.op = "handle_segment" /\ last.ok

\* The number of segment completions the handler has been given: every
\* segment FetchData ever issued that is no longer pending or in flight.
RECURSIVE SumTo(_, _)
SumTo(f, n) == IF n < 0 THEN 0 ELSE f[n] + SumTo(f, n - 1)

SegmentsCompleted ==
    SumTo(fetch_count, MaxSeq) - Cardinality(SegmentFetches)

\* buffered_segments holds the payloads not yet pulled, in push order.
PulledInPushOrder ==
    /\ Len(buffered_segments) <= Len(pushed)
    /\ buffered_segments =
          SubSeq(pushed, Len(pushed) - Len(buffered_segments) + 1, Len(pushed))

\* C11 as claimed: a successful segment completion pushes the
\* initialization payload and then the media payload when it is the first
\* segment completion of the session, and the media payload alone when it
\* is a later one; payloads are pulled in push order.
C11_TwoPayloadsOnFirstSegment ==
    /\ []PulledInPushOrder
    /\ [][SegmentSucceeded' =>
            Suffix(pushed, pushed') =
                IF SegmentsCompleted = 0
                THEN <<Payload("init", last'.data.seq), Payload("media", last'.data.seq)>>
                ELSE <<Payload("media", last'.data.seq)>>]_vars

\* C11 as amended: a successful segment completion pushes the
\* initialization payload and then the media payload when no initialization
\* payload was pushed before it (is_initialized is false), and the media
\* payload alone otherwise; payloads are pulled in push order.
C11_TwoPayloadsWhenUninitialized ==
    /\ []PulledInPushOrder
    /\ [][SegmentSucceeded' =>
            Suffix(pushed, pushed') =
                IF ~is_initialized
                THEN <<Payload("init", last'.data.seq), Payload("media", last'.data.seq)>>
                ELSE <<Payload("media", last'.data.seq)>>]_vars

\* C11 witness: of at least three completions one failed, one pushed both
\* payloads and a later one pushed a media payload alone, and the consumer
\* has pulled the first payload.
C11_Witness ==
    /\ SegmentSucceeded
    /\ Len(pushed) = 3
    /\ SegmentsCompleted >= 3
    /\ pushed[1].seq = pushed[2].seq
    /\ Len(buffered_segments) = 2
\* The sequence numbers of the queued entries whose fetch has not been
\* dispatched.
Undispatched(q) == {q[i][1] : i \in {j \in 1..Len(q) : ~q[j][2]}}

Lowest(S) == CHOOSE s \in S : \A r \in S : s <= r

\* C12: on a segment completion, if segment_queue holds an entry whose
\* fetch has not been dispatched, exactly one FetchData is enqueued in that
\* same step, for the lowest such entry; if none remains, the completion
\* enqueues no command.
C12_HandOffOnCompletion ==
    [][last'.op = "handle_segment" =>
          LET issued == Suffix(action_queue, action_queue')
          IN  IF Undispatched(segment_queue) # {}
              THEN /\ Len(issued) = 1
                   /\ IsSegmentFetch(issued[1])
                   /\ issued[1].url.n = Lowest(Undispatched(segment_queue))
                   /\ fetch_count'[issued[1].url.n] = fetch_count[issued[1].url.n] + 1
              ELSE issued = <<>>]_vars

\* C12 witness: a completion whose remux failed has just handed off to the
\* next queued segment while a further entry stays queued.
C12_Witness ==
    /\ last.op = "handle_segment"
    /\ ~last.ok
    /\ action_queue # <<>>
    /\ IsSegmentFetch(Back(action_queue))
    /\ segment_queue # <<>>
    /\ Back(action_queue).url.n < segment_queue[1][1]
\* The last step was a manifest poll, whatever it returned.
Polled ==
    last.op \in {"handle_playlist", "with_m3u8"}

\* The entries a poll leaves of q when the playlist it parsed starts at
\* first.
NotStale(q, first) == SelectSeq(q, LAMBDA e : e[1] >= first)

\* C13: a manifest poll enqueues a segment FetchData if and only if it
\* appends at least one newly discovered segment while segment_queue is
\* empty after the stale entries are dropped; it then enqueues exactly one,
\* for the lowest new sequence number, whose entry has fetch_started true,
\* and every other new segment is appended with fetch_started false and
\* without a FetchData.
C13_PollFetchesOnlyWhenIdle ==
    [][Polled' =>
          LET kept ==
                IF last'.data.kind = "m3u8"
                THEN NotStale(segment_queue, last'.data.media_sequence)
                ELSE segment_queue
              appended == Suffix(kept, segment_queue')
              fetches ==
                {a \in Range(action_queue') : IsSegmentFetch(a)} \ Range(action_queue)
          IN  /\ SubSeq(segment_queue', 1, Len(kept)) = kept
              /\ (fetches # {}) <=> (appended # <<>> /\ kept = <<>>)
              /\ fetches # {} =>
                    /\ Cardinality(fetches) = 1
                    /\ \A a \in fetches : a.url.n = appended[1][1]
                    /\ appended[1][2]
              /\ \A i \in 1..Len(appended) :
                    /\ appended[1][1] <= appended[i][1]
                    /\ (i > 1 \/ kept # <<>>) => ~appended[i][2]]_vars

\* C13 witness: a poll dropped a stale entry, found the queue empty, issued
\* the FetchData of the first of two new segments and queued the second.
C13_Witness ==
    /\ last.op = "handle_playlist"
    /\ last.ok
    /\ dropped # {}
    /\ Len(segment_queue) = 2
    /\ segment_queue[1][2]
    /\ ~segment_queue[2][2]
    /\ Len(action_queue) >= 2
    /\ IsSegmentFetch(action_queue[Len(action_queue) - 1])
    /\ action_queue[Len(action_queue) - 1].url.n = segment_queue[1][1]
    /\ enqueued = {e[1] : e \in dropped} \cup {segment_queue[1][1], segment_queue[2][1]}
\* C14: every DataReceived that answers a manifest FetchData is processed
\* as manifest data and every DataReceived that answers a segment FetchData
\* as segment data.  The bytes tell which fetch a completion answers: the
\* host answers a fetch of the playlist with kind "binary", "text" or
\* "m3u8" and a fetch of a segment file with kind "ts".
C14_CompletionsRoutedByKind ==
    /\ last.op = "handle_playlist" => last.data.kind \in {"binary", "text", "m3u8"}
    /\ last.op = "handle_segment" => last.data.kind = "ts"

\* C14 witness: a segment completion was routed to handle_segment while the
\* manifest fetch issued by a fired timer is in flight, and handed off to
\* the next segment.
C14_Witness ==
    /\ last.op = "handle_segment"
    /\ fetch_playlist_action_id # 0
    /\ \E a \in in_flight : a.url = media_playlist_url /\ a.id = fetch_playlist_action_id
    /\ \E a \in SegmentFetches : a.id > fetch_playlist_action_id
\* A command of the manifest poll cycle: a FetchData for the playlist or a
\* SetTimer.
IsCycleCommand(a) ==
    a.kind = "SetTimer" \/ (a.kind = "FetchData" /\ a.url = media_playlist_url)

\* The cycle commands pending in action_queue or outstanding at the host.
CycleCommands ==
    Cardinality({i \in 1..Len(action_queue) : IsCycleCommand(action_queue[i])})
    + Cardinality({a \in in_flight : IsCycleCommand(a)})

PollFailed ==
    last.op = "handle_playlist" /\ ~last.ok

\* C15: a new session has exactly one manifest-cycle command, and every
\* step that is not a failed manifest poll keeps it at exactly one; each
\* successful manifest completion enqueues exactly one SetTimer and each
\* TimerFired enqueues exactly one FetchData, for the playlist.
C15_OneCycleCommand ==
    /\ CycleCommands = 1
    /\ [][(CycleCommands = 1 /\ ~PollFailed') => CycleCommands' = 1]_vars
    /\ [][PollSucceeded' =>
             Cardinality({a \in Range(action_queue') : a.kind = "SetTimer"}
                         \ Range(action_queue)) = 1]_vars
    /\ [][last'.op = "handle_timeout" =>
             /\ Len(action_queue') = Len(action_queue) + 1
             /\ Back(action_queue').kind = "FetchData"
             /\ Back(action_queue').url = media_playlist_url]_vars

\* C15 witness: after a successful poll that found a segment, the timer
\* has fired and the next manifest fetch is the one cycle command.
C15_Witness ==
    /\ last.op = "handle_timeout"
    /\ CycleCommands = 1
    /\ segments_total >= 1
    /\ Back(action_queue).url = media_playlist_url
    /\ Back(action_queue).id = fetch_playlist_action_id
\* C16: when the remuxer fails on a completed segment the completion
\* returns an error, pushes nothing and leaves is_initialized alone, and
\* the pipeline step is the one a successful completion takes: the
\* dispatched front entry is removed and the FetchData of the next queued
\* segment, never of the failed one, is enqueued.
C16_RemuxFailureKeepsPipeline ==
    [][(last'.op = "handle_segment" /\ last'.data.outcome = "remux_err") =>
          LET good == handle_segment(Self, [last'.data EXCEPT !.outcome = "ok"]).self
              issued == Suffix(action_queue, action_queue')
          IN  /\ ~last'.ok
              /\ pushed' = pushed
              /\ buffered_segments' = buffered_segments
              /\ is_initialized' = is_initialized
              /\ segment_queue' = good.segment_queue
              /\ action_queue' = good.action_queue
              /\ (segment_queue # <<>> /\ segment_queue[1][2])
                    => \A i \in 1..Len(segment_queue') :
                          segment_queue'[i][1] > segment_queue[1][1]
              /\ \A i \in 1..Len(issued) :
                    /\ IsSegmentFetch(issued[i])
                    /\ issued[i].url.n # last'.data.seq
                    /\ fetch_count'[issued[i].url.n] = 1
              /\ (Len(segment_queue) >= 2 => Len(issued) = 1)
              /\ fetch_count'[last'.data.seq] = 1]_vars

\* C16 witness: the remuxer failed on a segment, and the same completion
\* removed its entry and issued the FetchData of the next one.
C16_Witness ==
    /\ last.op = "handle_segment"
    /\ last.data.outcome = "remux_err"
    /\ ~last.ok
    /\ pushed = <<>>
    /\ action_queue # <<>>
    /\ IsSegmentFetch(Back(action_queue))
    /\ Back(action_queue).url.n = last.data.seq + 1
    /\ segment_queue = <<>>
\* C17: whenever segment_queue is non-empty at least one segment FetchData
\* is pending in action_queue or in flight at the host.
C17_NoStallWithWorkQueued ==
    segment_queue # <<>> => SegmentFetches # {}
\* C17 witness: the fetch of a swept entry is the only one outstanding while
\* undispatched entries wait behind it.
C17_Witness ==
    /\ segment_queue # <<>>
    /\ ~segment_queue[1][2]
    /\ Cardinality(SegmentFetches) = 1
    /\ \A a \in SegmentFetches : a.url.n < segment_queue[1][1]
InQueue(s) == \E i \in 1..Len(segment_queue) : segment_queue[i][1] = s

\* The ActionFactory never reaches the limit of SpecLive: no completion is
\* held back there.
LiveHostNeverHeldBack == action_factory + 2 <= LiveActions

\* The sequence number at the front of segment_queue.  Entries are appended
\* at the back in increasing order and leave at the front, so an entry stays
\* in the queue forever exactly when some entry stays at the front forever.
Oldest == IF segment_queue = <<>> THEN -1 ELSE Head(segment_queue)[1]

\* C18: under a host that pulls every pending action and reports every
\* completion, no entry of segment_queue stays in the queue forever (again
\* and again the queue is empty or its front entry is replaced), and an
\* entry that has left it was the target of a FetchData or was dropped by a
\* manifest poll.
C18_EveryEntryLeavesQueue ==
    /\ [](\A s \in enqueued :
             \/ InQueue(s)
             \/ fetch_count[s] >= 1
             \/ \E d \in dropped : d[1] = s)
    /\ \/ []<>(segment_queue = <<>>)
       \/ []<><<Oldest' # Oldest>>_vars

\* C18 witness: an entry that waited undispatched behind another one has
\* left the queue with its FetchData issued, and an entry was dropped.
C18_Witness ==
    /\ last.op = "handle_segment"
    /\ \E s \in enqueued :
          /\ ~InQueue(s)
          /\ fetch_count[s] = 1
          /\ \E a \in Range(action_queue) : IsSegmentFetch(a) /\ a.url.n = s
          /\ \E t \in enqueued : t < s /\ fetch_count[t] = 1
    /\ dropped # {}
\* C19 as stated: a manifest poll that finds nothing new, directly after
\* one that found nothing new either under the same target, totals and
\* round trip, computes a shorter interval than that one did, unless that
\* one was zero already.
C19_RepeatedNoUpdateShrinks ==
    [][(PollSucceeded' /\ polled'.repeats >= 1
        /\ DurLt(from_secs(0), polled.interval))
          => DurLt(polled'.interval, polled.interval)]_vars

\* C19, amended: such a poll computes the interval the poll before it
\* computed, half of max(0, min(target, running average) - floor(elapsed / 2)):
\* polling_interval starts from the target duration at every poll, so the
\* halving is applied once and does not accumulate.
C19_RepeatedNoUpdateSameInterval ==
    [][(PollSucceeded' /\ polled'.repeats >= 1) =>
          /\ polled'.interval = polled.interval
          /\ Back(action_queue').duration = polled.interval
          /\ polled'.interval =
                IntervalFormula(polled.target, {}, polled.segments_total,
                                polled.segment_durations_total, polled.ms)]_vars

\* C19 witness: three polls in a row found nothing new under the same
\* target, totals and round trip, and the interval of the last is positive.
C19_Witness ==
    /\ last.op = "handle_playlist"
    /\ last.ok
    /\ polled.repeats = 2
    /\ DurLt(from_secs(0), polled.interval)
    /\ Back(action_queue).kind = "SetTimer"
    /\ Back(action_queue).duration = polled.interval
\* The sequence numbers of the media payloads pushed so far, in push order.
MediaPushed == SelectSeq(pushed, LAMBDA p : p.kind = "media")

\* C20: the media payloads are pushed in strictly increasing order of the
\* sequence number of the segment each was built from, whatever the order
\* in which the host reports the segment completions.
C20_MediaInSequenceOrder ==
    \A i, j \in 1..Len(MediaPushed) :
       i < j => MediaPushed[i].seq < MediaPushed[j].seq
====
